---- MODULE Spec2Model ----
(***************************************************************************)
(* amoid: conversion between AMO identifier formats (id, guid, slug,       *)
(* user_id) through a redash query, and partitioning of mixed identifier   *)
(* lists.  The repository holds three entry scripts: src/cli.js (convert   *)
(* and partition, on top of amolib), index.js (convert with an inlined     *)
(* detectInput and redashSQL) and the oldest convert script                *)
(* (unnamed/part_000).                                                     *)
(*                                                                         *)
(* A string is a sequence of one-character strings; fixed literal words    *)
(* ("id", "Warning: ", ...) are single elements.  "NUL" and "SUB" stand    *)
(* for the characters 0x00 and 0x1a.                                       *)
(***************************************************************************)
EXTENDS Integers, Sequences, FiniteSets, TLC

\* ------------------------------------------------------------------ bounds

MaxLen == 3        \* length of the lines given to the classifier
MaxEscLen == 3     \* length of the strings given to the escaping functions
MaxNum == 11       \* largest numeric cell value given to csvEscape
MaxLines == 2      \* identifiers of one invocation (positional or stdin)
MaxRows == 2       \* rows of a query result

\* -------------------------------------------------------------- characters

BS == "\\"
SQ == "'"
DQ == "\""
NL == "\n"
CR == "\r"
NUL == "NUL"
SUB == "SUB"
COMMA == ","

DigitSeq == <<"0", "1", "2", "3", "4", "5", "6", "7", "8", "9">>
LowerSeq == <<"a", "b", "c", "d", "e", "f", "g", "h", "i", "j", "k", "l", "m",
              "n", "o", "p", "q", "r", "s", "t", "u", "v", "w", "x", "y", "z">>
UpperSeq == <<"A", "B", "C", "D", "E", "F", "G", "H", "I", "J", "K", "L", "M",
              "N", "O", "P", "Q", "R", "S", "T", "U", "V", "W", "X", "Y", "Z">>

Range(f) == {f[i] : i \in DOMAIN f}
Digits == Range(DigitSeq)
Lower == Range(LowerSeq)
Upper == Range(UpperSeq)
LowerHex == {"a", "b", "c", "d", "e", "f"}

\* The i flag of a regular expression: a class also matches the other case.
IgnoreCase(cls) ==
  cls \cup {UpperSeq[i] : i \in {j \in DOMAIN LowerSeq : LowerSeq[j] \in cls}}
      \cup {LowerSeq[i] : i \in {j \in DOMAIN UpperSeq : UpperSeq[j] \in cls}}

\* ------------------------------------------------------ regular expressions
\* A pattern is a sequence of items [cls, min, many]: min characters of cls,
\* or min and more.  A regular expression is a sequence of alternative
\* patterns, anchored at both ends (^...$, no m flag).

One(c) == [cls |-> {c}, min |-> 1, many |-> FALSE]
Rep(cls, n) == [cls |-> cls, min |-> n, many |-> FALSE]
Star(cls) == [cls |-> cls, min |-> 0, many |-> TRUE]
Plus(cls) == [cls |-> cls, min |-> 1, many |-> TRUE]

RECURSIVE MatchFrom(_, _, _, _)
MatchFrom(pat, i, s, j) ==
  IF i > Len(pat)
  THEN j = Len(s) + 1
  ELSE LET item == pat[i]
           rest == Len(s) - j + 1
           hi == IF item.many THEN rest ELSE item.min
       IN \E k \in item.min..hi :
            /\ k <= rest
            /\ \A m \in j..(j + k - 1) : s[m] \in item.cls
            /\ MatchFrom(pat, i + 1, s, j + k)

\* String.prototype.match against an anchored expression: a match or null.
RegexTest(re, s) == \E a \in DOMAIN re : MatchFrom(re[a], 1, s, 1)

\* /^[0-9]+$/
RE_IDS == << <<Plus(Digits)>> >>

GuidHex == IgnoreCase(Digits \cup LowerHex)
GuidChars == IgnoreCase(Lower \cup Digits \cup {"-", ".", "_"})

RE_GUID_EmptyDomain ==
  << <<One("{"), Rep(GuidHex, 8), One("-"), Rep(GuidHex, 4), One("-"),
       Rep(GuidHex, 4), One("-"), Rep(GuidHex, 4), One("-"),
       Rep(GuidHex, 12), One("}")>>,
     <<Star(GuidChars), One("@"), Star(GuidChars)>> >>

\* /^(\{[0-9a-f]{8}-[0-9a-f]{4}-[0-9a-f]{4}-[0-9a-f]{4}-[0-9a-f]{12}\}|[a-z0-9-._]*@[a-z0-9-._]+)$/i
RE_GUID ==
  << <<One("{"), Rep(GuidHex, 8), One("-"), Rep(GuidHex, 4), One("-"),
       Rep(GuidHex, 4), One("-"), Rep(GuidHex, 4), One("-"),
       Rep(GuidHex, 12), One("}")>>,
     <<Star(GuidChars), One("@"), Plus(GuidChars)>> >>

\* The type the loop of detectInput gives one line: the id test first, then
\* the guid test; a line counted by neither is a slug.
classify(line) ==
  IF RegexTest(RE_IDS, line) THEN "id"
  ELSE IF RegexTest(RE_GUID, line) THEN "guid"
  ELSE "slug"

detectInput_NoFallback(data) ==
  LET countIds == Cardinality({i \in DOMAIN data : classify(data[i]) = "id"})
      countGuids == Cardinality({i \in DOMAIN data : classify(data[i]) = "guid"})
      total == Len(data)
  IN IF countIds = total THEN "id"
     ELSE IF countGuids = total THEN "guid"
     ELSE "auto"

detectInput(data) ==
  LET countIds == Cardinality({i \in DOMAIN data : classify(data[i]) = "id"})
      countGuids == Cardinality({i \in DOMAIN data : classify(data[i]) = "guid"})
      total == Len(data)
  IN IF countIds = total THEN "id"
     ELSE IF countGuids = total THEN "guid"
     ELSE "slug"

\* ---------------------------------------------------------------- escaping

\* String.prototype.replace with a one-character global pattern.
RECURSIVE replaceAll(_, _, _)
replaceAll(str, ch, repl) ==
  IF str = <<>> THEN <<>>
  ELSE (IF Head(str) = ch THEN repl ELSE <<Head(str)>>)
         \o replaceAll(Tail(str), ch, repl)

mysqlEscape_BackslashLast(str) ==
  LET s1 == replaceAll(str, SQ, <<BS, SQ>>)
      s2 == replaceAll(s1, DQ, <<BS, DQ>>)
      s3 == replaceAll(s2, NL, <<BS, NL>>)
      s4 == replaceAll(s3, CR, <<BS, CR>>)
      s5 == replaceAll(s4, NUL, <<BS, NUL>>)
      s6 == replaceAll(s5, SUB, <<BS, SUB>>)
  IN replaceAll(s6, BS, <<BS, BS>>)

mysqlEscape(str) ==
  LET s1 == replaceAll(str, BS, <<BS, BS>>)
      s2 == replaceAll(s1, SQ, <<BS, SQ>>)
      s3 == replaceAll(s2, DQ, <<BS, DQ>>)
      s4 == replaceAll(s3, NL, <<BS, NL>>)
      s5 == replaceAll(s4, CR, <<BS, CR>>)
      s6 == replaceAll(s5, NUL, <<BS, NUL>>)
  IN replaceAll(s6, SUB, <<BS, SUB>>)

\* A cell value of a result row: a string, a number, or absent (undefined,
\* null).
StrVal(s) == [t |-> "str", s |-> s, n |-> 0]
NumVal(n) == [t |-> "num", s |-> <<>>, n |-> n]
Absent == [t |-> "absent", s |-> <<>>, n |-> 0]

\* ToBoolean: undefined, null, 0 and "" are falsy.
Truthy(v) ==
  CASE v.t = "absent" -> FALSE
    [] v.t = "num" -> v.n # 0
    [] OTHER -> v.s # <<>>

RECURSIVE NumToStr(_)
NumToStr(n) ==
  IF n < 10 THEN <<DigitSeq[n + 1]>>
  ELSE NumToStr(n \div 10) \o <<DigitSeq[(n % 10) + 1]>>

\* ToString of a value; Array.prototype.join renders undefined and null as "".
ToStr(v) ==
  CASE v.t = "absent" -> <<>>
    [] v.t = "num" -> NumToStr(v.n)
    [] OTHER -> v.s

\* (str || "").toString().replace(/,/g, "\\,")
csvEscape(str) ==
  replaceAll(IF Truthy(str) THEN ToStr(str) ELSE <<>>, COMMA, <<BS, COMMA>>)

\* Array.prototype.join on an array of strings.
RECURSIVE Join(_, _)
Join(texts, sep) ==
  IF texts = <<>> THEN <<>>
  ELSE IF Len(texts) = 1 THEN texts[1]
  ELSE texts[1] \o sep \o Join(Tail(texts), sep)

\* Array.prototype.filter(Boolean) on an array of strings.
filterBoolean(lines) == SelectSeq(lines, LAMBDA l : l # <<>>)

\* -------------------------------------------------------------------- state

VARIABLES
  script,      \* the entry script that runs: "cli", "index" or "part"
  argv0,       \* the command line as yargs parsed it
  argv,        \* the argv object the command works on (convert assigns argv.input)
  apiToken,    \* cli.js: the credential handed to AMORedashClient
  pc,          \* where the invocation is
  lines,       \* waitForStdin: the lines read so far
  rawInput,    \* the list getInputData returned
  data,        \* convert: the identifier list (cli.js filters it)
  columns,     \* convert: the column list
  useCsv,      \* convert: escape is csvEscape (TRUE) or the identity (FALSE)
  query,       \* the SQL text submitted
  request,     \* the request to the query service
  nSubmitted,  \* queries handed to the query service
  rows,        \* the rows of the result
  out,         \* the primary stream (console.log), as characters
  err,         \* the diagnostic stream (console.warn, console.error), as messages
  exitCode,    \* the exit code, -1 while the process runs
  caught,      \* the catch handler of the entry script's async function ran
  fnName, fnIn, fnOut, fnPc   \* a function applied on its own: name, argument, result

mainVars == <<script, argv0, argv, apiToken, pc, lines, rawInput, data, columns,
              useCsv, query, request, nSubmitted, rows, out, err, exitCode, caught>>
fnVars == <<fnName, fnIn, fnOut, fnPc>>
vars == <<mainVars, fnVars>>

SeqsUpTo(S, n) == UNION {[1..k -> S] : k \in 0..n}

\* ------------------------------------------------------------ command lines

FORMAT_CHOICES == <<"id", "guid", "slug", "user_id">>
FORMAT_CHOICES_index == <<"id", "guid", "slug">>

\* -o given once is a string, given several times (or defaulted) an array;
\* partition's -o is an array or absent.
StrOut(c) == [kind |-> "string", cols |-> <<c>>]
ArrOut(cs) == [kind |-> "array", cols |-> cs]
NoOut == [kind |-> "none", cols |-> <<>>]

\* The identifier lines of the model: an empty line, an id, a guid, and a
\* slug with a double quote in it.
LinePool == {<<>>, <<"7">>, <<"a", "@", "b">>, <<"s", DQ>>}
IdLists == SeqsUpTo(LinePool, MaxLines)

\* cli.js, the default command: -i over FORMAT_CHOICES and auto, -o, -U, -w.
CliConvertArgs ==
  [cmd : {"convert"},
   input : Range(FORMAT_CHOICES) \cup {"auto"},
   output : {StrOut("id"), StrOut("user_id"), ArrOut(<<"guid", "slug">>),
             ArrOut(FORMAT_CHOICES)},
   user : BOOLEAN, wx : BOOLEAN, debug : {FALSE},
   identifier : IdLists]

\* cli.js, partition: -o over id, guid, slug (an array) or absent, -d.
CliPartitionArgs ==
  [cmd : {"partition"},
   input : {"none"},
   output : {NoOut, ArrOut(<<"guid">>), ArrOut(<<"slug", "id">>),
             ArrOut(<<"id", "guid", "slug">>)},
   user : {FALSE}, wx : {FALSE}, debug : BOOLEAN,
   identifier : IdLists]

\* index.js: -i over id, guid, slug and auto, -o, -U, -d.
IndexArgs ==
  [cmd : {"convert"},
   input : Range(FORMAT_CHOICES_index) \cup {"auto"},
   output : {StrOut("id"), ArrOut(FORMAT_CHOICES_index)},
   user : BOOLEAN, wx : {FALSE}, debug : BOOLEAN,
   identifier : IdLists]

\* The oldest script: -i over id, guid, slug (default guid), -o.
PartArgs ==
  [cmd : {"convert"},
   input : Range(FORMAT_CHOICES_index),
   output : {StrOut("id"), ArrOut(FORMAT_CHOICES_index)},
   user : {FALSE}, wx : {FALSE}, debug : {FALSE},
   identifier : IdLists]

CommandLines(s) ==
  CASE s = "cli" -> CliConvertArgs \cup CliPartitionArgs
    [] s = "index" -> IndexArgs
    [] OTHER -> PartArgs

\* ------------------------------------------------------------------ streams

Msg(kind, n) == [kind |-> kind, n |-> n]

\* console.log(text): the text and a line break on the primary stream.
consoleLog(stream, text) == stream \o text \o <<NL>>

\* The lines a stream holds, each ended by a line break.
RECURSIVE LinesFrom(_, _)
LinesFrom(stream, cur) ==
  IF stream = <<>> THEN (IF cur = <<>> THEN <<>> ELSE <<cur>>)
  ELSE IF Head(stream) = NL THEN <<cur>> \o LinesFrom(Tail(stream), <<>>)
  ELSE LinesFrom(Tail(stream), Append(cur, Head(stream)))

OutLines(stream) == LinesFrom(stream, <<>>)

\* -------------------------------------------------------------- the queries
\* A query is its clauses in the order of the text; a clause is a keyword, an
\* argument (words) and a list (of texts).

Clause(kw, arg, list) == [kw |-> kw, arg |-> arg, list |-> list]

columnmap(col) ==
  CASE col = "id" -> <<"a.", "id">>
    [] col = "guid" -> <<"a.", "guid">>
    [] col = "slug" -> <<"a.", "slug">>
    [] col = "user_id" -> <<"au.", "user_id">>
    [] OTHER -> <<"a.", col>>

wxJoins_VersionsOnly(wx) ==
  IF wx THEN <<Clause("LEFT JOIN", <<"versions v", "ON", "v.addon_id = a.id">>, <<>>)>>
  ELSE <<>>

\* ${argv.wx ? `LEFT JOIN versions v ... LEFT JOIN files f ...` : ""}
wxJoins(wx) ==
  IF wx THEN <<Clause("LEFT JOIN", <<"versions v", "ON", "v.addon_id = a.id">>, <<>>),
               Clause("LEFT JOIN", <<"files f", "ON", "f.version_id = v.id">>, <<>>)>>
  ELSE <<>>

wxCondition(wx) ==
  IF wx THEN <<Clause("AND", <<"f.is_webextension = 1">>, <<>>)>> ELSE <<>>

guidReuseExclusion(col) == Clause("AND NOT LIKE", col, << <<"guid-reused-by-pk-%">> >>)

\* res = await this.redash.sql(...) of the argv.user branch
cli_userQuery(input, cols, wx, escapedIds) ==
  <<Clause("SELECT", <<>>, [i \in DOMAIN cols |-> columnmap(cols[i])]
                              \o << <<"au.", "user_id">> >>),
    Clause("FROM", <<"addons_users au">>, <<>>),
    Clause("LEFT JOIN", <<"addons a", "ON", "a.id = au.addon_id">>, <<>>)>>
  \o wxJoins(wx)
  \o <<Clause("WHERE IN (", <<"au.", "user_id">>, <<>>),
       Clause("SELECT", <<>>, << <<"au.", "user_id">> >>),
       Clause("FROM", <<"addons a">>, <<>>),
       Clause("RIGHT JOIN", <<"addons_users au", "ON", "a.id = au.addon_id">>, <<>>),
       Clause("WHERE IN", <<"a.", input>>, escapedIds),
       Clause("GROUP BY", <<"au.", "user_id">>, <<>>),
       Clause(")", <<>>, <<>>),
       guidReuseExclusion(<<"a.", "guid">>)>>
  \o wxCondition(wx)
  \o <<Clause("GROUP BY", <<"a.", "id">>, <<>>)>>

\* the columns.length == 1 && columns[0] == "user_id" branch
cli_userIdQuery(input, escapedIds) ==
  <<Clause("SELECT", <<>>, << <<"au.", "user_id">> >>),
    Clause("FROM", <<"addons_users au">>, <<>>),
    Clause("LEFT JOIN", <<"addons a", "ON", "a.id = au.addon_id">>, <<>>),
    Clause("WHERE IN", <<"a.", input>>, escapedIds)>>

\* the else branch
cli_plainQuery(input, cols, wx, escapedIds) ==
  <<Clause("SELECT", <<>>, [i \in DOMAIN cols |-> columnmap(cols[i])]),
    Clause("FROM", <<"addons a">>, <<>>)>>
  \o wxJoins(wx)
  \o <<Clause("LEFT JOIN",
              <<"addons_users au", "ON", "au.addon_id = a.id AND au.position = 0">>, <<>>),
       Clause("WHERE IN", <<"a.", input>>, escapedIds),
       guidReuseExclusion(<<"a.", "guid">>)>>
  \o wxCondition(wx)
  \o <<Clause("GROUP BY", <<"a.", "id">>, <<>>)>>

cli_queryShape_UserIdFirst(cols, user) ==
  IF Len(cols) = 1 /\ cols[1] = "user_id" THEN "user_id"
  ELSE IF user THEN "user"
  ELSE "plain"

\* if (argv.user) ... else if (columns.length == 1 && columns[0] == "user_id") ... else
cli_queryShape(cols, user) ==
  IF user THEN "user"
  ELSE IF Len(cols) = 1 /\ cols[1] = "user_id" THEN "user_id"
  ELSE "plain"

cli_query(input, cols, user, wx, escapedIds) ==
  LET shape == cli_queryShape(cols, user)
  IN [shape |-> shape,
      clauses |-> CASE shape = "user" -> cli_userQuery(input, cols, wx, escapedIds)
                    [] shape = "user_id" -> cli_userIdQuery(input, escapedIds)
                    [] OTHER -> cli_plainQuery(input, cols, wx, escapedIds)]

index_query(input, cols, user, escapedIds) ==
  IF user
  THEN [shape |-> "user",
        clauses |->
          <<Clause("SELECT", <<>>, [i \in DOMAIN cols |-> <<"a.", cols[i]>>]
                                      \o << <<"au.", "user_id">> >>),
            Clause("FROM", <<"addons_users au">>, <<>>),
            Clause("LEFT JOIN", <<"addons a", "ON", "a.id = au.addon_id">>, <<>>),
            Clause("WHERE IN (", <<"au.", "user_id">>, <<>>),
            Clause("SELECT", <<>>, << <<"au.", "user_id">> >>),
            Clause("FROM", <<"addons a">>, <<>>),
            Clause("RIGHT JOIN", <<"addons_users au", "ON", "a.id = au.addon_id">>, <<>>),
            Clause("WHERE IN", <<"a.", input>>, escapedIds),
            Clause("GROUP BY", <<"au.", "user_id">>, <<>>),
            Clause(")", <<>>, <<>>),
            guidReuseExclusion(<<"a.", "guid">>),
            Clause("GROUP BY", <<"a.", "id">>, <<>>)>>]
  ELSE [shape |-> "plain",
        clauses |->
          <<Clause("SELECT", <<>>, [i \in DOMAIN cols |-> <<cols[i]>>]),
            Clause("FROM", <<"addons">>, <<>>),
            Clause("WHERE IN", <<input>>, escapedIds),
            guidReuseExclusion(<<"guid">>)>>]

part_query(input, cols, escapedIds) ==
  [shape |-> "plain",
   clauses |->
     <<Clause("SELECT", <<>>, [i \in DOMAIN cols |-> <<cols[i]>>]),
       Clause("FROM", <<"addons">>, <<>>),
       Clause("WHERE IN", <<input>>, escapedIds)>>]

\* '"' + mysqlEscape(line) + '"' of every line
escapeIds(d) == [i \in DOMAIN d |-> <<DQ>> \o mysqlEscape(d[i]) \o <<DQ>>]

\* ------------------------------------------------------- the query service
\* The service answers a query with rows keyed by the names of the columns
\* the outer SELECT lists, or it fails.

resultColumns(q) ==
  LET sel == q.clauses[1].list
  IN {sel[i][Len(sel[i])] : i \in DOMAIN sel}

RowValues1 == [id |-> NumVal(7), guid |-> StrVal(<<"a", "@", "b">>),
               slug |-> StrVal(<<"s", COMMA, "t">>), user_id |-> NumVal(3)]
RowValues2 == [id |-> NumVal(10), guid |-> StrVal(<<"@", "c">>),
               slug |-> StrVal(<<"x">>), user_id |-> Absent]

RowPool(cols) == {[c \in cols |-> RowValues1[c]], [c \in cols |-> RowValues2[c]]}
ResultSets(q) == SeqsUpTo(RowPool(resultColumns(q)), MaxRows)

\* row[column]: undefined for a column the row does not have
Get(row, column) == IF column \in DOMAIN row THEN row[column] ELSE Absent


\* --------------------------------------------------------------- rendering

\* res.query_result.data.rows.map(row => columns.map(column => escape(row[column])).join(","))
\* escape is csvEscape or the identity; join renders what is left as a string.
formatRows(cols, csv, rs) ==
  [i \in DOMAIN rs |->
     Join([j \in DOMAIN cols |->
             IF csv THEN csvEscape(Get(rs[i], cols[j])) ELSE ToStr(Get(rs[i], cols[j]))],
          <<COMMA>>)]

\* if (columns.length > 1 && resdata.length > 0) console.log(columns.join(","));
\* console.log(resdata.join("\n"));
printResult(stream, cols, resdata) ==
  LET withHeader ==
        IF Len(cols) > 1 /\ Len(resdata) > 0
        THEN consoleLog(stream, Join([j \in DOMAIN cols |-> <<cols[j]>>], <<COMMA>>))
        ELSE stream
  IN consoleLog(withHeader, Join(resdata, <<NL>>))

\* if (resdata.length < data.length)
notFound(nRows, nData) == nRows < nData

\* if (resdata.length != data.length), the oldest script
part_notFound(nRows, nData) == nRows # nData

\* console.warn(`Warning: ${data.length - resdata.length} entries were not found`)
warnNotFound(stream, missing, nRows, nData) ==
  IF missing THEN Append(stream, Msg("notfound", nData - nRows)) ELSE stream

\* ---------------------------------------------------------------- partition

\* amolib's partitionIds: every line in the bucket of its type, in input order.
partitionIds(d) ==
  [ids |-> SelectSeq(d, LAMBDA l : classify(l) = "id"),
   guids |-> SelectSeq(d, LAMBDA l : classify(l) = "guid"),
   other |-> SelectSeq(d, LAMBDA l : classify(l) = "slug")]

\* bold(text)
bold(text) == <<"ESC[1m">> \o text \o <<"ESC[0m">>

\* header(text): argv.output ? "" : bold(text) + "\n"
header(output, text) == IF output.kind # "none" THEN <<>> ELSE bold(text) \o <<NL>>

\* argv.output.includes(name)
includes(output, name) == \E i \in DOMAIN output.cols : output.cols[i] = name

partitionSections(output, parts) ==
  (IF Len(parts.ids) > 0 /\ (output.kind = "none" \/ includes(output, "id"))
   THEN <<header(output, <<"IDs:">>) \o Join(parts.ids, <<NL>>)>> ELSE <<>>)
  \o
  (IF Len(parts.guids) > 0 /\ (output.kind = "none" \/ includes(output, "guid"))
   THEN <<header(output, <<"GUIDs:">>) \o Join(parts.guids, <<NL>>)>> ELSE <<>>)
  \o
  (IF Len(parts.other) > 0 /\ (output.kind = "none" \/ includes(output, "slug"))
   THEN <<header(output, <<"Slugs:">>) \o Join(parts.other, <<NL>>)>> ELSE <<>>)

sectionSeparator_BlankLine(output) == <<NL, NL>>

\* argv.output ? "\n" : "\n\n"
sectionSeparator(output) == IF output.kind # "none" THEN <<NL>> ELSE <<NL, NL>>

partitionText(output, parts) ==
  Join(partitionSections(output, parts), sectionSeparator(output))

\* ------------------------------------------------------------------ actions

\* getInputData up to its await: the positional identifiers, or the wait for
\* stdin (with the message on a terminal, when there is one).
getInputData(hasMessage, errNow) ==
  IF argv.identifier = <<>>
  THEN /\ \E isTTY \in BOOLEAN :
            err' = IF isTTY /\ hasMessage THEN Append(errNow, Msg("waiting", 0)) ELSE errNow
       /\ pc' = "stdin"
       /\ rawInput' = rawInput
  ELSE /\ err' = errNow
       /\ pc' = "input"
       /\ rawInput' = argv.identifier

\* cli.js: getConfig (it throws, or gives a config with or without the key),
\* yargs, new AMORedashClient, and the command called without await; what
\* getConfig throws reaches the catch handler of the async function.
cli_main ==
  /\ pc = "start" /\ script = "cli"
  /\ \E config \in {"ok", "nokey", "throws"} :
       IF config = "throws"
       THEN /\ err' = Append(err, Msg("error", 0))
            /\ caught' = TRUE
            /\ exitCode' = 1
            /\ pc' = "exited"
            /\ UNCHANGED <<apiToken, rawInput>>
       ELSE /\ apiToken' = IF config = "ok" THEN "key" ELSE "missing"
            /\ getInputData(argv.cmd = "convert", err)
            /\ UNCHANGED <<caught, exitCode>>
  /\ UNCHANGED <<script, argv0, argv, lines, data, columns, useCsv, query, request,
                 nSubmitted, rows, out, fnVars>>

\* index.js: yargs calls cmd_convert, which runs to its first await.
index_main ==
  /\ pc = "start" /\ script = "index"
  /\ getInputData(TRUE, err)
  /\ UNCHANGED <<script, argv0, argv, apiToken, lines, data, columns, useCsv, query,
                 request, nSubmitted, rows, out, exitCode, caught, fnVars>>

\* The oldest script: the same start.
part_main ==
  /\ pc = "start" /\ script = "part"
  /\ getInputData(TRUE, err)
  /\ UNCHANGED <<script, argv0, argv, apiToken, lines, data, columns, useCsv, query,
                 request, nSubmitted, rows, out, exitCode, caught, fnVars>>

\* waitForStdin: rli.on("line", line => lines.push(line))
stdinLine ==
  /\ pc = "stdin" /\ Len(lines) < MaxLines
  /\ \E line \in LinePool : lines' = Append(lines, line)
  /\ UNCHANGED <<script, argv0, argv, apiToken, pc, rawInput, data, columns, useCsv,
                 query, request, nSubmitted, rows, out, err, exitCode, caught, fnVars>>

\* waitForStdin: rli.once("close", () => resolve(lines))
stdinClose ==
  /\ pc = "stdin"
  /\ rawInput' = lines
  /\ pc' = "input"
  /\ UNCHANGED <<script, argv0, argv, apiToken, lines, data, columns, useCsv, query,
                 request, nSubmitted, rows, out, err, exitCode, caught, fnVars>>

\* cli.js convert, from the input to the await of this.redash.sql.
\* detectIdType is amolib's; index.js holds the same detection as detectInput.
cli_convert ==
  /\ pc = "input" /\ script = "cli" /\ argv.cmd = "convert"
  /\ LET input == IF argv.input = "auto" THEN detectInput(rawInput) ELSE argv.input
         cols == argv.output.cols
         d == filterBoolean(rawInput)
     IN /\ argv' = [argv EXCEPT !.input = input]
        /\ columns' = cols
        /\ useCsv' = (Len(cols) > 1)
        /\ err' = Append(err, Msg("converting", 0))
        /\ data' = d
        /\ query' = cli_query(input, cols, argv.user, argv.wx, escapeIds(d))
  /\ nSubmitted' = nSubmitted + 1
  /\ request' = "pending"
  /\ pc' = "pending"
  /\ UNCHANGED <<script, argv0, apiToken, lines, rawInput, rows, out, exitCode,
                 caught, fnVars>>

\* redashSQL: the query on the diagnostic stream under debug, then the config
\* file (readFileSync throws without one), then the request, or the throw for
\* the missing key.
redashSQL(debug, errNow) ==
  \E config \in {"ok", "nokey", "throws"} :
    /\ err' = IF debug THEN Append(errNow, Msg("sql", 0)) ELSE errNow
    /\ IF config = "ok"
       THEN /\ nSubmitted' = nSubmitted + 1
            /\ request' = "pending"
            /\ pc' = "pending"
       ELSE /\ nSubmitted' = nSubmitted
            /\ request' = request
            /\ pc' = "rejected"

\* index.js cmd_convert, from the input to the await of redashSQL
index_cmd_convert ==
  /\ pc = "input" /\ script = "index"
  /\ LET input == IF argv.input = "auto" THEN detectInput(rawInput) ELSE argv.input
         cols == argv.output.cols
     IN /\ argv' = [argv EXCEPT !.input = input]
        /\ columns' = cols
        /\ useCsv' = (Len(cols) > 1)
        /\ data' = rawInput
        /\ query' = index_query(input, cols, argv.user, escapeIds(rawInput))
  /\ redashSQL(argv.debug, Append(err, Msg("converting", 0)))
  /\ UNCHANGED <<script, argv0, apiToken, lines, rawInput, rows, out, exitCode,
                 caught, fnVars>>

\* The oldest cmd_convert, from the input to the await of redashSQL
part_cmd_convert ==
  /\ pc = "input" /\ script = "part"
  /\ columns' = argv.output.cols
  /\ useCsv' = (Len(argv.output.cols) > 1)
  /\ data' = rawInput
  /\ query' = part_query(argv.input, argv.output.cols, escapeIds(rawInput))
  /\ redashSQL(FALSE, err)
  /\ UNCHANGED <<script, argv0, argv, apiToken, lines, rawInput, rows, out, exitCode,
                 caught, fnVars>>

pushUserId_SingleColumnToo(user, cols) ==
  IF user THEN Append(cols, "user_id") ELSE cols

\* in the argv.user branch, after the await:
\* if (columns.length > 1) columns.push("user_id")
pushUserId(user, cols) ==
  IF user /\ Len(cols) > 1 THEN Append(cols, "user_id") ELSE cols

\* cli.js convert after the await: the user_id column for display, the rows,
\* the header, the data, the warning.  columns is the argv.output array itself
\* when -o was an array.
cli_convert_resolved ==
  /\ pc = "pending" /\ script = "cli" /\ apiToken = "key"
  /\ \E res \in ResultSets(query) :
       LET cols == pushUserId(argv.user, columns)
           resdata == formatRows(cols, useCsv, res)
       IN /\ rows' = res
          /\ columns' = cols
          /\ argv' = IF argv.output.kind = "array"
                     THEN [argv EXCEPT !.output.cols = cols] ELSE argv
          /\ out' = printResult(out, cols, resdata)
          /\ err' = warnNotFound(err, notFound(Len(resdata), Len(data)),
                                 Len(resdata), Len(data))
  /\ request' = "resolved"
  /\ pc' = "done"
  /\ UNCHANGED <<script, argv0, apiToken, lines, rawInput, data, useCsv, query,
                 nSubmitted, exitCode, caught, fnVars>>

\* index.js cmd_convert after the await
index_cmd_convert_resolved ==
  /\ pc = "pending" /\ script = "index"
  /\ \E res \in ResultSets(query) :
       LET cols == pushUserId(argv.user, columns)
           resdata == formatRows(cols, useCsv, res)
       IN /\ rows' = res
          /\ columns' = cols
          /\ argv' = IF argv.output.kind = "array"
                     THEN [argv EXCEPT !.output.cols = cols] ELSE argv
          /\ out' = printResult(out, cols, resdata)
          /\ err' = warnNotFound(err, notFound(Len(resdata), Len(data)),
                                 Len(resdata), Len(data))
  /\ request' = "resolved"
  /\ pc' = "done"
  /\ UNCHANGED <<script, argv0, apiToken, lines, rawInput, data, useCsv, query,
                 nSubmitted, exitCode, caught, fnVars>>

\* The oldest cmd_convert after the await
part_cmd_convert_resolved ==
  /\ pc = "pending" /\ script = "part"
  /\ \E res \in ResultSets(query) :
       LET resdata == formatRows(columns, useCsv, res)
       IN /\ rows' = res
          /\ out' = printResult(out, columns, resdata)
          /\ err' = warnNotFound(err, part_notFound(Len(resdata), Len(data)),
                                 Len(resdata), Len(data))
  /\ request' = "resolved"
  /\ pc' = "done"
  /\ UNCHANGED <<script, argv0, argv, apiToken, lines, rawInput, data, columns, useCsv,
                 query, nSubmitted, exitCode, caught, fnVars>>

\* The query service fails: the await throws in the command.
queryRejected ==
  /\ pc = "pending"
  /\ request' = "rejected"
  /\ pc' = "rejected"
  /\ UNCHANGED <<script, argv0, argv, apiToken, lines, rawInput, data, columns, useCsv,
                 query, nSubmitted, rows, out, err, exitCode, caught, fnVars>>

\* The command's promise is rejected and nothing awaits it (cli.js calls the
\* command without await or return; the other scripts hand it to yargs): the
\* catch handler of the async function does not run.  The runtime prints the
\* rejection and, by its version, goes on to exit 0 or ends the process with 1.
unhandledRejection ==
  /\ pc = "rejected"
  /\ err' = Append(err, Msg("unhandled", 0))
  /\ \E code \in {0, 1} : exitCode' = code
  /\ pc' = "exited"
  /\ UNCHANGED <<script, argv0, argv, apiToken, lines, rawInput, data, columns, useCsv,
                 query, request, nSubmitted, rows, out, caught, fnVars>>

\* cli.js partition, from the input to its end
cli_partition ==
  /\ pc = "input" /\ script = "cli" /\ argv.cmd = "partition"
  /\ LET parts == partitionIds(rawInput)
     IN /\ err' = IF argv.debug THEN Append(err, Msg("counts", 0)) ELSE err
        /\ out' = consoleLog(out, partitionText(argv.output, parts))
  /\ data' = rawInput
  /\ pc' = "done"
  /\ UNCHANGED <<script, argv0, argv, apiToken, lines, rawInput, columns, useCsv,
                 query, request, nSubmitted, rows, exitCode, caught, fnVars>>

\* Nothing is left to run: the process ends with 0.
processEnd ==
  /\ pc = "done"
  /\ exitCode' = 0
  /\ pc' = "exited"
  /\ UNCHANGED <<script, argv0, argv, apiToken, lines, rawInput, data, columns, useCsv,
                 query, request, nSubmitted, rows, out, err, caught, fnVars>>

Init ==
  /\ script \in {"cli", "index", "part"}
  /\ argv0 \in CommandLines(script)
  /\ argv = argv0
  /\ apiToken = "none"
  /\ pc = "start"
  /\ lines = <<>> /\ rawInput = <<>> /\ data = <<>>
  /\ columns = <<>> /\ useCsv = FALSE
  /\ query = [shape |-> "none", clauses |-> <<>>]
  /\ request = "none" /\ nSubmitted = 0 /\ rows = <<>>
  /\ out = <<>> /\ err = <<>>
  /\ exitCode = -1 /\ caught = FALSE
  /\ fnName = "none" /\ fnIn = Absent /\ fnOut = <<>> /\ fnPc = "idle"

Next ==
  \/ cli_main
  \/ index_main
  \/ part_main
  \/ stdinLine
  \/ stdinClose
  \/ cli_convert
  \/ index_cmd_convert
  \/ part_cmd_convert
  \/ cli_convert_resolved
  \/ index_cmd_convert_resolved
  \/ part_cmd_convert_resolved
  \/ queryRejected
  \/ unhandledRejection
  \/ cli_partition
  \/ processEnd

Spec == Init /\ [][Next]_vars

\* ----------------------------------------------- functions applied on their own
\* The classifier and the two escaping functions, each applied to one argument
\* drawn from a bounded set.  The invocation itself does not run (pc = "idle").

NoArgv == [cmd |-> "none", input |-> "none", output |-> [kind |-> "none", cols |-> <<>>],
           user |-> FALSE, wx |-> FALSE, debug |-> FALSE, identifier |-> <<>>]
NoQuery == [shape |-> "none", clauses |-> <<>>]

MainIdle ==
  /\ script = "none" /\ argv0 = NoArgv /\ argv = NoArgv /\ apiToken = "none"
  /\ pc = "idle" /\ lines = <<>> /\ rawInput = <<>> /\ data = <<>>
  /\ columns = <<>> /\ useCsv = FALSE /\ query = NoQuery /\ request = "none"
  /\ nSubmitted = 0 /\ rows = <<>> /\ out = <<>> /\ err = <<>>
  /\ exitCode = -1 /\ caught = FALSE

UuidBase ==
  <<"{", "a", "1", "B", "2", "c", "3", "D", "4", "-", "e", "5", "F", "6", "-",
    "0", "7", "8", "9", "-", "A", "b", "C", "d", "-",
    "e", "f", "0", "1", "2", "3", "4", "5", "6", "7", "8", "9", "}">>

\* The well-formed uuid, and what one edit makes of it.
UuidLines ==
  {UuidBase}
    \cup {[UuidBase EXCEPT ![i] = c] :
            i \in DOMAIN UuidBase, c \in {"g", "G", "-", "7", "f", "{", "}", "_"}}
    \cup {UuidBase \o <<c>> : c \in {"}", "a", NL}}
    \cup {<<c>> \o UuidBase : c \in {"{", "a", " "}}
    \cup {Tail(UuidBase), SubSeq(UuidBase, 1, Len(UuidBase) - 1)}

ClassifyChars == {"7", "a", "g", "G", "-", ".", "_", "@", "{", " "}
ClassifyLines == SeqsUpTo(ClassifyChars, MaxLen) \cup UuidLines

EscapeChars == {BS, SQ, DQ, NL, CR, NUL, SUB, "a"}
EscapeLines == SeqsUpTo(EscapeChars, MaxEscLen)

CsvValues ==
  {Absent} \cup {NumVal(n) : n \in 0..MaxNum}
           \cup {StrVal(s) : s \in SeqsUpTo({COMMA, BS, "a"}, MaxEscLen)}

InitClassify ==
  /\ MainIdle
  /\ fnName = "classify" /\ fnIn \in {StrVal(l) : l \in ClassifyLines}
  /\ fnOut = <<>> /\ fnPc = "ready"

InitEscape ==
  /\ MainIdle
  /\ \/ fnName = "mysqlEscape" /\ fnIn \in {StrVal(l) : l \in EscapeLines}
     \/ fnName = "csvEscape" /\ fnIn \in CsvValues
  /\ fnOut = <<>> /\ fnPc = "ready"

ApplyClassify ==
  /\ fnPc = "ready" /\ fnName = "classify"
  /\ fnOut' = <<classify(fnIn.s)>>
  /\ fnPc' = "done"
  /\ UNCHANGED <<mainVars, fnName, fnIn>>

ApplyMysqlEscape ==
  /\ fnPc = "ready" /\ fnName = "mysqlEscape"
  /\ fnOut' = mysqlEscape(fnIn.s)
  /\ fnPc' = "done"
  /\ UNCHANGED <<mainVars, fnName, fnIn>>

ApplyCsvEscape ==
  /\ fnPc = "ready" /\ fnName = "csvEscape"
  /\ fnOut' = csvEscape(fnIn)
  /\ fnPc' = "done"
  /\ UNCHANGED <<mainVars, fnName, fnIn>>

NextClassify == ApplyClassify
NextEscape == ApplyMysqlEscape \/ ApplyCsvEscape

SpecClassify == InitClassify /\ [][NextClassify]_vars
SpecEscape == InitEscape /\ [][NextEscape]_vars

\* ------------------------------------------------------------------- claims

Alnum == Digits \cup Lower \cup Upper
HexDigit == Digits \cup {"a", "b", "c", "d", "e", "f", "A", "B", "C", "D", "E", "F"}

IsAllDigits(s) == Len(s) > 0 /\ \A i \in DOMAIN s : s[i] \in Digits

IsBracedUuid(s) ==
  /\ Len(s) = 38
  /\ s[1] = "{" /\ s[38] = "}"
  /\ \A i \in 2..37 :
       IF i \in {10, 15, 20, 25} THEN s[i] = "-" ELSE s[i] \in HexDigit

\* local-part@domain with both parts over the characters of allowed, the
\* domain not empty.
IsExtensionId(s, allowed) ==
  \E k \in DOMAIN s :
    /\ s[k] = "@"
    /\ k < Len(s)
    /\ \A i \in DOMAIN s : i # k => s[i] \in allowed

ClassifiedAs(s, allowed) ==
  IF IsAllDigits(s) THEN "id"
  ELSE IF IsBracedUuid(s) \/ IsExtensionId(s, allowed) THEN "guid"
  ELSE "slug"

\* C2, as amended: the classifier gives every line exactly one type: id iff
\* the line is one or more digits; guid iff it is a curly-braced 8-4-4-4-12 hex
\* uuid (either case) or local-part@domain over alphanumerics, hyphens, dots
\* and underscores, the local part possibly empty and the domain not; slug
\* for every other line, the empty one included.
C2_ClassifierTotal ==
  (fnName = "classify" /\ fnPc = "done") =>
     /\ fnOut \in {<<"id">>, <<"guid">>, <<"slug">>}
     /\ fnOut = <<ClassifiedAs(fnIn.s, Alnum \cup {"-", ".", "_"})>>

\* C2, as claimed: local-part and domain consist only of alphanumerics,
\* hyphens and dots.
C2_ClassifierAsClaimed ==
  (fnName = "classify" /\ fnPc = "done") =>
     fnOut = <<ClassifiedAs(fnIn.s, Alnum \cup {"-", "."})>>

\* A line with an underscore and an empty local part has been classified guid.
C2_Witness ==
  /\ fnName = "classify" /\ fnPc = "done"
  /\ fnIn.s = <<"@", "_", "a">>
  /\ fnOut = <<"guid">>

\* The backslashes that end at position i of s, one after the other.
RECURSIVE BackslashRun(_, _)
BackslashRun(s, i) ==
  IF i = 0 THEN 0
  ELSE IF s[i] # BS THEN 0
  ELSE 1 + BackslashRun(s, i - 1)

\* What the query engine reads from the inside of a literal: a backslash
\* and the character after it stand for that character.
RECURSIVE ReadLiteral(_)
ReadLiteral(s) ==
  IF s = <<>> THEN <<>>
  ELSE IF Head(s) = BS /\ Len(s) > 1 THEN <<s[2]>> \o ReadLiteral(Tail(Tail(s)))
  ELSE <<Head(s)>> \o ReadLiteral(Tail(s))

SqlSpecial == {BS, SQ, DQ, NL, CR, NUL, SUB}

\* C3: the escaped text of a line cannot end the quoted literal it is put in:
\* every quote in it follows an odd number of backslashes, it does not end in
\* an odd number of backslashes (which would escape the closing delimiter),
\* each special character got exactly one backslash (none was doubled by a
\* later replacement), and the literal reads back as the line.
C3_EscapeInjectionSafe ==
  (fnName = "mysqlEscape" /\ fnPc = "done") =>
     /\ \A i \in DOMAIN fnOut :
          fnOut[i] \in {DQ, SQ} => BackslashRun(fnOut, i - 1) % 2 = 1
     /\ BackslashRun(fnOut, Len(fnOut)) % 2 = 0
     /\ Len(fnOut) =
          Len(fnIn.s) + Cardinality({i \in DOMAIN fnIn.s : fnIn.s[i] \in SqlSpecial})
     /\ ReadLiteral(fnOut) = fnIn.s

\* A line that ends in a backslash and a double quote has been escaped.
C3_Witness ==
  /\ fnName = "mysqlEscape" /\ fnPc = "done"
  /\ fnIn.s = <<"a", BS, DQ>>
  /\ fnOut = <<"a", BS, BS, BS, DQ>>

\* C4, as claimed: for every present cell value, the number 0 included,
\* csvEscape gives the value's string form with every comma replaced by
\* backslash-comma and nothing else altered; the result is empty only for an
\* absent value (or a string that is empty itself).
C4_CsvEscapeAsClaimed ==
  (fnName = "csvEscape" /\ fnPc = "done") =>
     /\ fnIn.t # "absent" =>
          /\ fnOut = replaceAll(ToStr(fnIn), COMMA, <<BS, COMMA>>)
          /\ Len(fnOut) =
               Len(ToStr(fnIn))
                 + Cardinality({i \in DOMAIN ToStr(fnIn) : ToStr(fnIn)[i] = COMMA})
     /\ fnOut = <<>> => (fnIn.t = "absent" \/ fnIn = StrVal(<<>>))

HasMsg(kind) == \E i \in DOMAIN err : err[i].kind = kind

\* The convert command has run up to its query.
ConvertRan == argv0.cmd = "convert" /\ columns # <<>>

\* C1, as claimed: the type detected for the list handed to detection (empty
\* lines still in it) is id if every non-empty line classifies as id, guid if
\* every line classifies as guid, and slug otherwise.
C1_DetectionAsClaimed ==
  (script \in {"cli", "index"} /\ argv0.input = "auto" /\ ConvertRan) =>
     argv.input =
       IF \A i \in DOMAIN rawInput :
            rawInput[i] # <<>> => classify(rawInput[i]) = "id"
       THEN "id"
       ELSE IF \A i \in DOMAIN rawInput : classify(rawInput[i]) = "guid"
       THEN "guid"
       ELSE "slug"

\* The line of one row as the formatter is to print it.
RowLine(cols, row) ==
  IF Len(cols) > 1
  THEN Join([j \in DOMAIN cols |-> csvEscape(Get(row, cols[j]))], <<COMMA>>)
  ELSE ToStr(Get(row, cols[1]))

HeaderLine(cols) == Join([j \in DOMAIN cols |-> <<cols[j]>>], <<COMMA>>)

\* C5, as claimed: on the primary stream a header line of the comma-joined
\* column names is printed iff more than one column was requested and there
\* is at least one row, before all data; exactly one line per row follows;
\* with zero rows the stream receives no header line and no data line.
C5_FormatterAsClaimed ==
  (script = "cli" /\ argv0.cmd = "convert" /\ pc = "done") =>
     LET printed == OutLines(out)
         hasHeader == Len(argv0.output.cols) > 1 /\ Len(rows) > 0
         first == IF hasHeader THEN 1 ELSE 0
     IN /\ Len(printed) = first + Len(rows)
        /\ hasHeader => printed[1] = HeaderLine(columns)
        /\ \A i \in DOMAIN rows : printed[first + i] = RowLine(columns, rows[i])
        /\ Len(rows) = 0 => out = <<>>

\* C6, as claimed: the 'entries not found' diagnostic is written, to the
\* diagnostic stream only, iff there are fewer rows than input identifiers,
\* and its count is identifiers minus rows, hence positive.
C6_NotFoundAsClaimed ==
  (script \in {"cli", "part"} /\ argv0.cmd = "convert" /\ pc = "done") =>
     /\ HasMsg("notfound") <=> Len(rows) < Len(data)
     /\ \A i \in DOMAIN err :
          err[i].kind = "notfound" => (err[i].n = Len(data) - Len(rows) /\ err[i].n > 0)
     /\ Len(OutLines(out)) <= Len(rows) + 1

\* The sections partition is to show, in the order id, guid, slug: a label
\* and the lines of each bucket that is not empty and that the filter lists.
ShownSections ==
  LET parts == partitionIds(rawInput)
      filter == argv0.output
      shown(name) == filter.kind = "none" \/ \E i \in DOMAIN filter.cols : filter.cols[i] = name
  IN (IF parts.ids # <<>> /\ shown("id")
      THEN <<[label |-> "IDs:", items |-> parts.ids]>> ELSE <<>>)
     \o (IF parts.guids # <<>> /\ shown("guid")
         THEN <<[label |-> "GUIDs:", items |-> parts.guids]>> ELSE <<>>)
     \o (IF parts.other # <<>> /\ shown("slug")
         THEN <<[label |-> "Slugs:", items |-> parts.other]>> ELSE <<>>)

\* The lines of the sections: each with its label line or without, and with
\* the lines of between before every section but the first.
RECURSIVE SectionLines(_, _, _)
SectionLines(sections, labelled, between) ==
  IF sections = <<>> THEN <<>>
  ELSE (IF labelled THEN << <<"ESC[1m", sections[1].label, "ESC[0m">> >> ELSE <<>>)
       \o sections[1].items
       \o (IF Len(sections) > 1 THEN between ELSE <<>>)
       \o SectionLines(Tail(sections), labelled, between)

PartitionDone == script = "cli" /\ argv0.cmd = "partition" /\ pc = "done"

\* C7, as amended: partition prints the sections in the order id, guid, slug
\* and never an empty one; without a filter every section has its bold label
\* line and one blank line separates two sections; with a filter only the
\* listed sections are printed, without label, and a section follows the one
\* before on the next line, with no blank line between them.
C7_PartitionRendering ==
  PartitionDone =>
     IF ShownSections = <<>>
     THEN OutLines(out) = << <<>> >>
     ELSE OutLines(out) =
            IF argv0.output.kind = "none"
            THEN SectionLines(ShownSections, TRUE, << <<>> >>)
            ELSE SectionLines(ShownSections, FALSE, <<>>)

\* C7, as claimed: with a filter too, one blank line separates two sections.
C7_PartitionAsClaimed ==
  (PartitionDone /\ ShownSections # <<>>) =>
     OutLines(out) =
       SectionLines(ShownSections, argv0.output.kind = "none", << <<>> >>)

\* partition -o slug -o id has printed an id and a slug.
C7_Witness ==
  /\ PartitionDone
  /\ argv0.output = ArrOut(<<"slug", "id">>)
  /\ Len(ShownSections) = 2
  /\ OutLines(out) = << <<"7">>, <<"s", DQ>> >>

\* The invocation failed: the config could not be loaded, or the command's
\* promise was rejected (no credential, or the query service failed).
Failed == caught \/ request = "rejected" \/ HasMsg("unhandled")

\* C8, as claimed: every failure reaches the catch handler of the entry
\* script, which writes the error to the diagnostic stream and exits with 1;
\* the process exits with 0 only when nothing failed.
C8_FailuresAsClaimed ==
  pc = "exited" =>
     /\ Failed => (caught /\ HasMsg("error") /\ exitCode = 1)
     /\ exitCode = 0 => ~Failed

\* The input type the query filters on, and the literals it lists.
InputFilters(q) == SelectSeq(q.clauses, LAMBDA c : c.kw = "WHERE IN")

CliConvertQueried == script = "cli" /\ ConvertRan

\* C9: a convert invocation of cli.js submits exactly one query, on a concrete
\* input type (never auto); nothing is on the primary stream before the
\* request has completed, and nothing ever when it failed.
C9_OneRequestBeforeRender ==
  (script = "cli" /\ argv0.cmd = "convert") =>
     /\ nSubmitted = (IF ConvertRan THEN 1 ELSE 0)
     /\ ConvertRan =>
          /\ argv.input \in Range(FORMAT_CHOICES)
          /\ \A i \in DOMAIN InputFilters(query) :
               InputFilters(query)[i].arg = <<"a.", argv.input>>
          /\ Len(InputFilters(query)) = 1
     /\ out # <<>> => request = "resolved"
     /\ request \in {"pending", "rejected"} => out = <<>>
     /\ pc = "done" => request = "resolved"

\* A mixed list given with -i auto has been converted and printed.
C9_Witness ==
  /\ script = "cli" /\ argv0.cmd = "convert" /\ argv0.input = "auto"
  /\ rawInput = << <<"7">>, <<"s", DQ>> >>
  /\ argv.input = "slug"
  /\ pc = "done" /\ nSubmitted = 1 /\ Len(rows) = 2 /\ out # <<>>

\* The shape a query text has.
ShapeOf(q) ==
  IF \E i \in DOMAIN q.clauses : q.clauses[i].kw = "WHERE IN ("
  THEN "user"
  ELSE IF /\ q.clauses[1].list = << <<"au.", "user_id">> >>
          /\ q.clauses[2].arg = <<"addons_users au">>
  THEN "user_id"
  ELSE "plain"

Exclusions(q) ==
  SelectSeq(q.clauses,
            LAMBDA c : c.kw = "AND NOT LIKE" /\ c.list = << <<"guid-reused-by-pk-%">> >>)

\* C10: cli.js builds exactly one of three query shapes: the user expansion
\* whenever -U is set, whatever the columns; else the user_id-only query when
\* the requested columns are exactly user_id; else the plain lookup.  The
\* guid-reuse exclusion occurs once in the user expansion and the plain
\* lookup and not in the user_id-only query, and the one input filter lists
\* the escaped text of every (non-empty) input line, in order.
C10_QueryShape ==
  CliConvertQueried =>
     LET wanted == IF argv0.user THEN "user"
                   ELSE IF argv0.output.cols = <<"user_id">> THEN "user_id"
                   ELSE "plain"
         filters == InputFilters(query)
         kept == SelectSeq(rawInput, LAMBDA l : l # <<>>)
     IN /\ query.shape = wanted
        /\ ShapeOf(query) = wanted
        /\ nSubmitted = 1
        /\ Len(Exclusions(query)) = (IF wanted = "user_id" THEN 0 ELSE 1)
        /\ Len(filters) = 1
        /\ filters[1].arg = <<"a.", argv.input>>
        /\ Len(filters[1].list) = Len(kept)
        /\ \A i \in DOMAIN kept :
             LET lit == filters[1].list[i]
             IN /\ Len(lit) >= 2
                /\ lit[1] = DQ /\ lit[Len(lit)] = DQ
                /\ ReadLiteral(SubSeq(lit, 2, Len(lit) - 1)) = kept[i]

\* -U with the single column user_id has built the user expansion, for a
\* slug with a double quote in it.
C10_Witness ==
  /\ CliConvertQueried
  /\ argv0.user /\ argv0.output = StrOut("user_id")
  /\ ShapeOf(query) = "user"
  /\ rawInput = << <<>>, <<"s", DQ>> >>
  /\ pc = "pending"

\* The SELECT list the user expansion is to have for the requested columns.
UserSelectList(requested) ==
  [i \in DOMAIN requested |->
     IF script = "cli" /\ requested[i] = "user_id"
     THEN <<"au.", "user_id">> ELSE <<"a.", requested[i]>>]
  \o << <<"au.", "user_id">> >>

\* C11: with -U, user_id is appended to the displayed columns iff more than
\* one column was requested (one requested column is displayed alone, raw);
\* the append comes after the query is built, so the query text is derived
\* from the requested columns only and does not change; every column the
\* formatter renders is a column of the rows the query returns.
C11_UserIdAppendedForDisplay ==
  (script \in {"cli", "index"} /\ argv0.user /\ ConvertRan) =>
     LET requested == argv0.output.cols
     IN /\ query.clauses[1].kw = "SELECT"
        /\ query.clauses[1].list = UserSelectList(requested)
        /\ pc \in {"pending", "rejected"} => columns = requested
        /\ useCsv = (Len(requested) > 1)
        /\ pc = "done" =>
             /\ columns = IF Len(requested) > 1
                          THEN requested \o <<"user_id">> ELSE requested
             /\ \A j \in DOMAIN columns :
                  /\ columns[j] \in resultColumns(query)
                  /\ \A i \in DOMAIN rows : columns[j] \in DOMAIN rows[i]
             /\ Len(rows) > 0 =>
                  /\ Len(requested) > 1 => OutLines(out)[1] = HeaderLine(columns)
                  /\ Len(requested) = 1 =>
                       OutLines(out)[1] = ToStr(rows[1][requested[1]])

\* -U -o guid -o slug has printed rows under the header guid,slug,user_id.
C11_Witness ==
  /\ script = "cli" /\ argv0.user /\ pc = "done"
  /\ argv0.output = ArrOut(<<"guid", "slug">>)
  /\ columns = <<"guid", "slug", "user_id">>
  /\ Len(rows) = 2
  /\ OutLines(out)[1] = <<"guid", COMMA, "slug", COMMA, "user_id">>

\* The places of the clauses of q that join the given table.
JoinsOf(q, table) ==
  {i \in DOMAIN q.clauses :
     /\ q.clauses[i].kw \in {"LEFT JOIN", "RIGHT JOIN", "FROM"}
     /\ q.clauses[i].arg # <<>>
     /\ q.clauses[i].arg[1] = table}

\* The places of the conditions of q on files flagged as WebExtension.
WxConditions(q) ==
  {i \in DOMAIN q.clauses :
     q.clauses[i].kw = "AND" /\ q.clauses[i].arg = <<"f.is_webextension = 1">>}

\* The words of the versions and files tables and of their columns.
WxWords ==
  {"versions v", "v.addon_id = a.id", "files f", "f.version_id = v.id",
   "f.is_webextension = 1", "v.", "f."}

ReferencesWx(q) ==
  \E i \in DOMAIN q.clauses :
     \/ \E j \in DOMAIN q.clauses[i].arg : q.clauses[i].arg[j] \in WxWords
     \/ /\ q.clauses[i].kw = "SELECT"
        /\ \E j \in DOMAIN q.clauses[i].list : q.clauses[i].list[j][1] \in WxWords

\* C12: without -w the query of cli.js references neither versions nor files;
\* with -w the user expansion and the plain lookup join versions and then
\* files on the outer query, restrict to files flagged as WebExtension after
\* the guid-reuse exclusion, and still end with GROUP BY a.id.
C12_WebExtensionFilter ==
  CliConvertQueried =>
     LET n == Len(query.clauses)
         v == JoinsOf(query, "versions v")
         f == JoinsOf(query, "files f")
         c == WxConditions(query)
         sub == {i \in 1..n : query.clauses[i].kw = "WHERE IN ("}
         close == {i \in 1..n : query.clauses[i].kw = ")"}
     IN /\ ~argv0.wx => ~ReferencesWx(query)
        /\ (argv0.wx /\ ShapeOf(query) \in {"user", "plain"}) =>
             /\ Cardinality(v) = 1 /\ Cardinality(f) = 1 /\ Cardinality(c) = 1
             /\ \A i \in v, j \in f, k \in c :
                  /\ i < j /\ j < k
                  /\ query.clauses[i].arg = <<"versions v", "ON", "v.addon_id = a.id">>
                  /\ query.clauses[j].arg = <<"files f", "ON", "f.version_id = v.id">>
                  /\ \A o \in sub : j < o
                  /\ \A o \in close : o < k
                  /\ \A x \in DOMAIN Exclusions(query) : query.clauses[k - 1] = Exclusions(query)[x]
                  /\ k = n - 1
             /\ query.clauses[n] = Clause("GROUP BY", <<"a.", "id">>, <<>>)
        /\ ShapeOf(query) \in {"user", "plain"} =>
             query.clauses[n] = Clause("GROUP BY", <<"a.", "id">>, <<>>)

\* -w -U has submitted the user expansion with both joins and the condition.
C12_Witness ==
  /\ CliConvertQueried /\ argv0.wx /\ argv0.user /\ pc = "pending"
  /\ ShapeOf(query) = "user"
  /\ JoinsOf(query, "files f") # {}
  /\ WxConditions(query) # {}

====
